---- MODULE Spec2Model ----
(***************************************************************************)
(* Model of the directions pipeline of src/app.py: the /api/directions     *)
(* handler get_directions and the helpers it calls (geocode_address,       *)
(* enhance_search_terms, find_nearby_place, get_google_directions,         *)
(* parse_google_directions).                                               *)
(*                                                                         *)
(* A Python string is a sequence of one-character strings, so that the     *)
(* coordinate pattern and float() are computed character by character.     *)
(* The handler is cut at its outbound network calls: each action runs the  *)
(* code between two calls, and the provider's answer is the action's       *)
(* nondeterministic input.                                                 *)
(***************************************************************************)
EXTENDS Integers, Sequences, FiniteSets, TLC

VARIABLES
  pc,                  \* where the handler is: idle, geocode, places, directions, done
  origin,              \* data['origin']
  destination,         \* data['destination']
  api_key,             \* os.environ.get('GOOGLE_MAPS_API_KEY')
  calls,               \* the outbound requests issued so far, in order
  answers,             \* what the provider answered to each of them
  geocoded_coords,     \* the handler's local of that name
  places_result,       \* the handler's local of that name
  destination_coords,  \* the handler's local of that name
  directions_data,     \* the handler's local of that name
  parse_calls,         \* how many times parse_google_directions was called
  response,            \* the response of the handler
  probe,               \* a normalizer helper applied on its own: its input and result
  session,             \* Flask's session: current_language and current_tone
  exchange             \* the process-command request being answered and its response

handler_vars == <<pc, origin, destination, api_key, calls, answers,
                  geocoded_coords, places_result, destination_coords,
                  directions_data, parse_calls, response>>

vars == <<handler_vars, probe, session, exchange>>

(***************************************************************************)
(* Bounds                                                                  *)
(***************************************************************************)
\* longest origin string enumerated character by character
MaxOriginLen == 4
\* most legs in a provider route
MaxLegs == 2
\* longest raw instruction enumerated character by character
MaxInstructionLen == 4
\* largest distance in metres given to the distance display on its own
MaxMeters == 2500
\* largest duration in seconds given to the duration display on its own
MaxSeconds == 200
\* most phrases of the substitution table in one instruction
MaxPhrases == 2
\* most words in the destination of a navigation command
MaxDestinationWords == 2

(***************************************************************************)
(* Strings                                                                 *)
(***************************************************************************)
Digits == <<"0", "1", "2", "3", "4", "5", "6", "7", "8", "9">>

IsDigit(c) == \E i \in 1..10 : Digits[i] = c

DigitValue(c) == (CHOOSE i \in 1..10 : Digits[i] = c) - 1

StringsUpTo(alphabet, n) == UNION {[1..k -> alphabet] : k \in 0..n}

AllDigits(s, lo, hi) == \A i \in lo..hi : IsDigit(s[i])

RECURSIVE Pow10(_)
Pow10(n) == IF n = 0 THEN 1 ELSE 10 * Pow10(n - 1)

\* value of the digit string s[lo..hi] read in base ten (0 when empty)
RECURSIVE DigitsValue(_, _, _)
DigitsValue(s, lo, hi) ==
  IF hi < lo THEN 0
  ELSE 10 * DigitsValue(s, lo, hi - 1) + DigitValue(s[hi])

\* str(n) for a Python int
RECURSIVE NatToStr(_)
NatToStr(n) ==
  IF n < 10 THEN <<Digits[n + 1]>>
  ELSE NatToStr(n \div 10) \o <<Digits[(n % 10) + 1]>>

IntToStr(n) == IF n < 0 THEN <<"-">> \o NatToStr(-n) ELSE NatToStr(n)

\* position of the first c in s, 0 when absent
IndexOf(s, c) ==
  IF \E i \in 1..Len(s) : s[i] = c
  THEN CHOOSE i \in 1..Len(s) : s[i] = c /\ \A j \in 1..(i - 1) : s[j] # c
  ELSE 0

Count(s, c) == Cardinality({i \in 1..Len(s) : s[i] = c})

(***************************************************************************)
(* get_directions: the coordinate pattern and float()                      *)
(***************************************************************************)
\* -?\d+\.?\d*  matched against the whole of t
MatchesNumber(t) ==
  LET u == IF Len(t) > 0 /\ t[1] = "-" THEN Tail(t) ELSE t
  IN  \E j \in 1..Len(u) :
        /\ AllDigits(u, 1, j)
        /\ \/ j = Len(u)
           \/ u[j + 1] = "." /\ AllDigits(u, j + 2, Len(u))

\* re.match(r'^-?\d+\.?\d*,-?\d+\.?\d*$', s): "$" also matches just before a
\* final newline
coord_pattern(s) ==
  LET t == IF Len(s) > 0 /\ s[Len(s)] = "\n" THEN SubSeq(s, 1, Len(s) - 1) ELSE s
      i == IndexOf(t, ",")
  IN  /\ Count(t, ",") = 1
      /\ MatchesNumber(SubSeq(t, 1, i - 1))
      /\ MatchesNumber(SubSeq(t, i + 1, Len(t)))

\* float(t) for a t that matches -?\d+\.?\d* (surrounding whitespace is
\* stripped by float): the exact decimal value num/den
ParseFloat(t0) ==
  LET t   == IF Len(t0) > 0 /\ t0[Len(t0)] = "\n"
             THEN SubSeq(t0, 1, Len(t0) - 1) ELSE t0
      neg == Len(t) > 0 /\ t[1] = "-"
      u   == IF neg THEN Tail(t) ELSE t
      dot == IndexOf(u, ".")
      ie  == IF dot = 0 THEN Len(u) ELSE dot - 1
      nf  == IF dot = 0 THEN 0 ELSE Len(u) - dot
      mag == DigitsValue(u, 1, ie) * Pow10(nf) + DigitsValue(u, ie + 2, Len(u))
  IN  [num |-> IF neg THEN -mag ELSE mag, den |-> Pow10(nf)]

\* map(float, s.split(','))
ParseCoords(s) ==
  LET i == IndexOf(s, ",")
  IN  [lat |-> ParseFloat(SubSeq(s, 1, i - 1)),
       lng |-> ParseFloat(SubSeq(s, i + 1, Len(s)))]

\* lo <= x <= hi for the decimal x = num/den
InRange(x, lo, hi) == lo * x.den <= x.num /\ x.num <= hi * x.den

(***************************************************************************)
(* str.lower, str.strip, str.replace                                       *)
(***************************************************************************)
UpperCase == <<"A", "B", "C", "D", "E", "F", "G", "H", "I", "J", "K", "L", "M",
               "N", "O", "P", "Q", "R", "S", "T", "U", "V", "W", "X", "Y", "Z">>
LowerCase == <<"a", "b", "c", "d", "e", "f", "g", "h", "i", "j", "k", "l", "m",
               "n", "o", "p", "q", "r", "s", "t", "u", "v", "w", "x", "y", "z">>

LowerChar(c) ==
  IF \E i \in 1..26 : UpperCase[i] = c
  THEN LowerCase[CHOOSE i \in 1..26 : UpperCase[i] = c]
  ELSE c

lower(s) == [i \in 1..Len(s) |-> LowerChar(s[i])]

IsSpace(c) == c \in {" ", "\n", "\t"}

strip(s) ==
  IF \A i \in 1..Len(s) : IsSpace(s[i]) THEN <<>>
  ELSE LET a == CHOOSE i \in 1..Len(s) :
                  ~IsSpace(s[i]) /\ \A j \in 1..(i - 1) : IsSpace(s[j])
           b == CHOOSE i \in 1..Len(s) :
                  ~IsSpace(s[i]) /\ \A j \in (i + 1)..Len(s) : IsSpace(s[j])
       IN  SubSeq(s, a, b)

StartsWithAt(s, i, pat) ==
  /\ i + Len(pat) - 1 <= Len(s)
  /\ \A k \in 1..Len(pat) : s[i + k - 1] = pat[k]

\* s.replace(pat, rep) for a non-empty pat: leftmost non-overlapping matches
RECURSIVE replace(_, _, _)
replace(s, pat, rep) ==
  IF Len(s) = 0 THEN <<>>
  ELSE IF StartsWithAt(s, 1, pat)
       THEN rep \o replace(SubSeq(s, Len(pat) + 1, Len(s)), pat, rep)
       ELSE <<s[1]>> \o replace(Tail(s), pat, rep)

(***************************************************************************)
(* enhance_search_terms                                                    *)
(***************************************************************************)
generic_terms == <<
  [term |-> <<"l", "i", "b", "r", "a", "r", "y">>,
   enhanced |-> <<"l", "i", "b", "r", "a", "r", "y", " ", "n", "e", "a", "r", " ", "m", "e">>],
  [term |-> <<"h", "o", "s", "p", "i", "t", "a", "l">>,
   enhanced |-> <<"h", "o", "s", "p", "i", "t", "a", "l", " ", "n", "e", "a", "r", " ", "m", "e">>],
  [term |-> <<"s", "c", "h", "o", "o", "l">>,
   enhanced |-> <<"s", "c", "h", "o", "o", "l", " ", "n", "e", "a", "r", " ", "m", "e">>],
  [term |-> <<"r", "e", "s", "t", "a", "u", "r", "a", "n", "t">>,
   enhanced |-> <<"r", "e", "s", "t", "a", "u", "r", "a", "n", "t", " ", "n", "e", "a", "r", " ", "m", "e">>],
  [term |-> <<"p", "h", "a", "r", "m", "a", "c", "y">>,
   enhanced |-> <<"p", "h", "a", "r", "m", "a", "c", "y", " ", "n", "e", "a", "r", " ", "m", "e">>],
  [term |-> <<"b", "a", "n", "k">>,
   enhanced |-> <<"b", "a", "n", "k", " ", "n", "e", "a", "r", " ", "m", "e">>],
  [term |-> <<"g", "r", "o", "c", "e", "r", "y", " ", "s", "t", "o", "r", "e">>,
   enhanced |-> <<"g", "r", "o", "c", "e", "r", "y", " ", "s", "t", "o", "r", "e", " ", "n", "e", "a", "r", " ", "m", "e">>],
  [term |-> <<"g", "a", "s", " ", "s", "t", "a", "t", "i", "o", "n">>,
   enhanced |-> <<"g", "a", "s", " ", "s", "t", "a", "t", "i", "o", "n", " ", "n", "e", "a", "r", " ", "m", "e">>],
  [term |-> <<"s", "h", "o", "p", "p", "i", "n", "g", " ", "m", "a", "l", "l">>,
   enhanced |-> <<"s", "h", "o", "p", "p", "i", "n", "g", " ", "m", "a", "l", "l", " ", "n", "e", "a", "r", " ", "m", "e">>],
  [term |-> <<"p", "a", "r", "k">>,
   enhanced |-> <<"p", "a", "r", "k", " ", "n", "e", "a", "r", " ", "m", "e">>],
  [term |-> <<"g", "y", "m">>,
   enhanced |-> <<"g", "y", "m", " ", "n", "e", "a", "r", " ", "m", "e">>],
  [term |-> <<"u", "n", "i", "v", "e", "r", "s", "i", "t", "y">>,
   enhanced |-> <<"u", "n", "i", "v", "e", "r", "s", "i", "t", "y", " ", "n", "e", "a", "r", " ", "m", "e">>],
  [term |-> <<"c", "o", "l", "l", "e", "g", "e">>,
   enhanced |-> <<"c", "o", "l", "l", "e", "g", "e", " ", "n", "e", "a", "r", " ", "m", "e">>],
  [term |-> <<"a", "i", "r", "p", "o", "r", "t">>,
   enhanced |-> <<"a", "i", "r", "p", "o", "r", "t", " ", "n", "e", "a", "r", " ", "m", "e">>],
  [term |-> <<"t", "r", "a", "i", "n", " ", "s", "t", "a", "t", "i", "o", "n">>,
   enhanced |-> <<"t", "r", "a", "i", "n", " ", "s", "t", "a", "t", "i", "o", "n", " ", "n", "e", "a", "r", " ", "m", "e">>],
  [term |-> <<"b", "u", "s", " ", "s", "t", "a", "t", "i", "o", "n">>,
   enhanced |-> <<"b", "u", "s", " ", "s", "t", "a", "t", "i", "o", "n", " ", "n", "e", "a", "r", " ", "m", "e">>],
  [term |-> <<"h", "o", "t", "e", "l">>,
   enhanced |-> <<"h", "o", "t", "e", "l", " ", "n", "e", "a", "r", " ", "m", "e">>],
  [term |-> <<"c", "i", "n", "e", "m", "a">>,
   enhanced |-> <<"c", "i", "n", "e", "m", "a", " ", "n", "e", "a", "r", " ", "m", "e">>],
  [term |-> <<"m", "o", "v", "i", "e", " ", "t", "h", "e", "a", "t", "e", "r">>,
   enhanced |-> <<"m", "o", "v", "i", "e", " ", "t", "h", "e", "a", "t", "e", "r", " ", "n", "e", "a", "r", " ", "m", "e">>],
  [term |-> <<"c", "o", "f", "f", "e", "e", " ", "s", "h", "o", "p">>,
   enhanced |-> <<"c", "o", "f", "f", "e", "e", " ", "s", "h", "o", "p", " ", "n", "e", "a", "r", " ", "m", "e">>],
  [term |-> <<"p", "o", "s", "t", " ", "o", "f", "f", "i", "c", "e">>,
   enhanced |-> <<"p", "o", "s", "t", " ", "o", "f", "f", "i", "c", "e", " ", "n", "e", "a", "r", " ", "m", "e">>]
>>

\* the address geocoded as it was typed
enhance_search_terms_Literal(address) == address

enhance_search_terms(address) ==
  LET address_lower == strip(lower(address))
      hit(i) == \/ address_lower = generic_terms[i].term
                \/ address_lower = generic_terms[i].term \o <<"s">>
  IN  IF \E i \in 1..Len(generic_terms) : hit(i)
      THEN generic_terms[CHOOSE i \in 1..Len(generic_terms) :
                           hit(i) /\ \A j \in 1..(i - 1) : ~hit(j)].enhanced
      ELSE address

(***************************************************************************)
(* find_nearby_place: the place type looked up for the search              *)
(***************************************************************************)
place_type_mapping == <<
  [term |-> <<"l", "i", "b", "r", "a", "r", "y">>,
   type |-> <<"l", "i", "b", "r", "a", "r", "y">>],
  [term |-> <<"h", "o", "s", "p", "i", "t", "a", "l">>,
   type |-> <<"h", "o", "s", "p", "i", "t", "a", "l">>],
  [term |-> <<"s", "c", "h", "o", "o", "l">>,
   type |-> <<"s", "c", "h", "o", "o", "l">>],
  [term |-> <<"r", "e", "s", "t", "a", "u", "r", "a", "n", "t">>,
   type |-> <<"r", "e", "s", "t", "a", "u", "r", "a", "n", "t">>],
  [term |-> <<"p", "h", "a", "r", "m", "a", "c", "y">>,
   type |-> <<"p", "h", "a", "r", "m", "a", "c", "y">>],
  [term |-> <<"b", "a", "n", "k">>,
   type |-> <<"b", "a", "n", "k">>],
  [term |-> <<"g", "r", "o", "c", "e", "r", "y", " ", "s", "t", "o", "r", "e">>,
   type |-> <<"g", "r", "o", "c", "e", "r", "y", "_", "o", "r", "_", "s", "u", "p", "e", "r", "m", "a", "r", "k", "e", "t">>],
  [term |-> <<"g", "a", "s", " ", "s", "t", "a", "t", "i", "o", "n">>,
   type |-> <<"g", "a", "s", "_", "s", "t", "a", "t", "i", "o", "n">>],
  [term |-> <<"s", "h", "o", "p", "p", "i", "n", "g", " ", "m", "a", "l", "l">>,
   type |-> <<"s", "h", "o", "p", "p", "i", "n", "g", "_", "m", "a", "l", "l">>],
  [term |-> <<"p", "a", "r", "k">>,
   type |-> <<"p", "a", "r", "k">>],
  [term |-> <<"g", "y", "m">>,
   type |-> <<"g", "y", "m">>],
  [term |-> <<"u", "n", "i", "v", "e", "r", "s", "i", "t", "y">>,
   type |-> <<"u", "n", "i", "v", "e", "r", "s", "i", "t", "y">>],
  [term |-> <<"c", "o", "l", "l", "e", "g", "e">>,
   type |-> <<"u", "n", "i", "v", "e", "r", "s", "i", "t", "y">>],
  [term |-> <<"a", "i", "r", "p", "o", "r", "t">>,
   type |-> <<"a", "i", "r", "p", "o", "r", "t">>],
  [term |-> <<"t", "r", "a", "i", "n", " ", "s", "t", "a", "t", "i", "o", "n">>,
   type |-> <<"t", "r", "a", "i", "n", "_", "s", "t", "a", "t", "i", "o", "n">>],
  [term |-> <<"b", "u", "s", " ", "s", "t", "a", "t", "i", "o", "n">>,
   type |-> <<"b", "u", "s", "_", "s", "t", "a", "t", "i", "o", "n">>],
  [term |-> <<"h", "o", "t", "e", "l">>,
   type |-> <<"l", "o", "d", "g", "i", "n", "g">>],
  [term |-> <<"c", "i", "n", "e", "m", "a">>,
   type |-> <<"m", "o", "v", "i", "e", "_", "t", "h", "e", "a", "t", "e", "r">>],
  [term |-> <<"m", "o", "v", "i", "e", " ", "t", "h", "e", "a", "t", "e", "r">>,
   type |-> <<"m", "o", "v", "i", "e", "_", "t", "h", "e", "a", "t", "e", "r">>],
  [term |-> <<"c", "o", "f", "f", "e", "e", " ", "s", "h", "o", "p">>,
   type |-> <<"c", "a", "f", "e">>],
  [term |-> <<"p", "o", "s", "t", " ", "o", "f", "f", "i", "c", "e">>,
   type |-> <<"p", "o", "s", "t", "_", "o", "f", "f", "i", "c", "e">>]
>>

\* place_type_mapping.get(place_type.lower(), place_type.lower())
search_type(place_type) ==
  LET key == lower(place_type)
  IN  IF \E i \in 1..Len(place_type_mapping) : place_type_mapping[i].term = key
      THEN place_type_mapping[CHOOSE i \in 1..Len(place_type_mapping) :
                                place_type_mapping[i].term = key].type
      ELSE key

(***************************************************************************)
(* Values a JSON object may lack                                           *)
(***************************************************************************)
\* a string field that is not there (request field, environment variable,
\* payload key)
Missing == <<"<missing>">>

\* a numeric payload field that is not there: dict.get(..., 0) reads it as 0
Absent == -1

Get(v, default) == IF v = Absent THEN default ELSE v

(***************************************************************************)
(* clean_html_instruction, clean_instruction_text                          *)
(***************************************************************************)
ContinueStraight == <<"C", "o", "n", "t", "i", "n", "u", "e", " ", "s", "t", "r", "a", "i", "g", "h", "t">>

\* re.sub('<[^<]+?>', '', s): "<", then the fewest (at least one) characters
\* other than "<", then ">"
RECURSIVE strip_tags(_)
strip_tags(s) ==
  IF Len(s) = 0 THEN <<>>
  ELSE LET closes(j) == s[j] = ">" /\ \A k \in 2..(j - 1) : s[k] # "<"
       IN  IF s[1] = "<" /\ \E j \in 3..Len(s) : closes(j)
           THEN LET j == CHOOSE j \in 3..Len(s) :
                           closes(j) /\ \A k \in 3..(j - 1) : ~closes(k)
                IN  strip_tags(SubSeq(s, j + 1, Len(s)))
           ELSE <<s[1]>> \o strip_tags(Tail(s))

decode_entities(s) ==
  LET t1 == replace(s, <<"&", "n", "b", "s", "p", ";">>, <<" ">>)
      t2 == replace(t1, <<"&", "a", "m", "p", ";">>, <<"&">>)
      t3 == replace(t2, <<"&", "l", "t", ";">>, <<"<">>)
      t4 == replace(t3, <<"&", "g", "t", ";">>, <<">">>)
  IN  replace(t4, <<"&", "q", "u", "o", "t", ";">>, <<"\"">>)

clean_html_instruction(html_instruction) ==
  IF html_instruction = <<>> THEN ContinueStraight
  ELSE strip(decode_entities(strip_tags(html_instruction)))

\* the voice clean-up without its "if not instruction" default
clean_instruction_text_NoDefault(instruction) ==
  LET t0 == strip(instruction)
      t1 == replace(t0, <<"t", "o", "w", "a", "r", "d">>, <<"t", "o", "w", "a", "r", "d", "s">>)
  IN  replace(t1, <<"C", "o", "n", "t", "i", "n", "u", "e", " ", "o", "n">>, <<"C", "o", "n", "t", "i", "n", "u", "e", " ", "a", "l", "o", "n", "g">>)

clean_instruction_text(instruction) ==
  IF instruction = <<>> THEN ContinueStraight
  ELSE LET t0 == strip(instruction)
           t1 == replace(t0, <<"t", "o", "w", "a", "r", "d">>, <<"t", "o", "w", "a", "r", "d", "s">>)
           t2 == replace(t1, <<"D", "e", "s", "t", "i", "n", "a", "t", "i", "o", "n", " ", "w", "i", "l", "l", " ", "b", "e", " ", "o", "n", " ", "t", "h", "e", " ", "r", "i", "g", "h", "t">>,
                         <<"Y", "o", "u", "r", " ", "d", "e", "s", "t", "i", "n", "a", "t", "i", "o", "n", " ", "w", "i", "l", "l", " ", "b", "e", " ", "o", "n", " ", "t", "h", "e", " ", "r", "i", "g", "h", "t">>)
           t3 == replace(t2, <<"D", "e", "s", "t", "i", "n", "a", "t", "i", "o", "n", " ", "w", "i", "l", "l", " ", "b", "e", " ", "o", "n", " ", "t", "h", "e", " ", "l", "e", "f", "t">>,
                         <<"Y", "o", "u", "r", " ", "d", "e", "s", "t", "i", "n", "a", "t", "i", "o", "n", " ", "w", "i", "l", "l", " ", "b", "e", " ", "o", "n", " ", "t", "h", "e", " ", "l", "e", "f", "t">>)
       IN  replace(t3, <<"C", "o", "n", "t", "i", "n", "u", "e", " ", "o", "n">>, <<"C", "o", "n", "t", "i", "n", "u", "e", " ", "a", "l", "o", "n", "g">>)

\* the instruction of a step_data: step.get('html_instructions', 'Continue
\* straight'), clean_html_instruction, then clean_instruction_text
step_instruction(html_instructions) ==
  LET html_instruction == IF html_instructions = Missing
                          THEN ContinueStraight
                          ELSE html_instructions
      instruction == clean_html_instruction(html_instruction)
  IN  clean_instruction_text(instruction)

(***************************************************************************)
(* Display of a distance and of a duration (parse_google_directions)       *)
(***************************************************************************)
\* the m in 1000..9999 with m % 100 = 50 for which f"{m/1000:.1f}" rounds the
\* tenths up (the double nearest m/1000 lies above the tie, or the tie is
\* exact and the tenths digit below it is odd)
KmTieRoundsUp ==
    {1050, 1350, 1550, 1750, 1850, 2350, 2450, 2750, 2850, 2950, 3350,
     3450, 3750, 3850, 3950, 4150, 4450, 4650, 4750, 4950, 5150, 5450,
     5650, 5750, 5950, 6150, 6450, 6650, 6750, 6950, 7150, 7450, 7650,
     7750, 7950, 8050, 8150, 8550, 8650, 8750, 9050, 9150, 9550, 9650,
     9750}

\* kilometres displayed from 1001 m on
FormatDistance_KmAbove1000(m) ==
  IF m <= 1000 THEN NatToStr(m) \o <<" ", "m">>
  ELSE NatToStr(m \div 1000) \o <<".">> \o NatToStr((m % 1000) \div 100)
         \o <<" ", "k", "m">>

\* f"{m:.0f} m" if m < 1000 else f"{m/1000:.1f} km", for an int m < 10000
FormatDistance(m) ==
  IF m < 1000 THEN NatToStr(m) \o <<" ", "m">>
  ELSE LET q == m \div 100
           r == m % 100
           tenths == IF r > 50 \/ (r = 50 /\ m \in KmTieRoundsUp) THEN q + 1 ELSE q
       IN  NatToStr(tenths \div 10) \o <<".">> \o NatToStr(tenths % 10)
             \o <<" ", "k", "m">>

\* minutes rounded to the nearest instead of floored
FormatDuration_Rounded(s) ==
  IF s >= 60 THEN NatToStr((s + 30) \div 60) \o <<" ", "m", "i", "n">>
  ELSE NatToStr(s) \o <<" ", "s", "e", "c">>

\* f"{s//60:.0f} min" if s >= 60 else f"{s:.0f} sec", for an int s
FormatDuration(s) ==
  IF s >= 60 THEN NatToStr(s \div 60) \o <<" ", "m", "i", "n">>
  ELSE NatToStr(s) \o <<" ", "s", "e", "c">>

(***************************************************************************)
(* parse_google_directions                                                 *)
(*                                                                         *)
(* A payload is [status, routes]; a route is [legs]; a leg is              *)
(* [distance, duration, steps, start_address, end_address] with steps one *)
(* of [kind |-> "absent"], [kind |-> "null"] and                           *)
(* [kind |-> "list", items |-> <<step, ...>>]; a step is [distance,        *)
(* duration, html_instructions, start_location, end_location].  distance   *)
(* and duration are the "value" in metres and seconds, or Absent; an       *)
(* address or instruction that the payload lacks is Missing.  The          *)
(* pass-through fields maneuver, travel_mode, overview_polyline and bounds *)
(* are left out.                                                           *)
(***************************************************************************)
ZeroLocation == [lat |-> 0, lng |-> 0]

\* {'lat': loc.get('lat', 0), 'lng': loc.get('lng', 0)}
Location(loc) == [lat |-> Get(loc.lat, 0), lng |-> Get(loc.lng, 0)]

\* each step_data put in front of the list instead of appended to it
RECURSIVE ParseSteps_Prepend(_, _, _)
ParseSteps_Prepend(leg_steps, steps, step_number) ==
  IF Len(leg_steps) = 0 THEN [steps |-> steps, step_number |-> step_number]
  ELSE LET step == Head(leg_steps)
           distance_m == Get(step.distance, 0)
           duration_s == Get(step.duration, 0)
           step_data == [step_number      |-> step_number,
                         instruction      |-> step_instruction(step.html_instructions),
                         distance         |-> FormatDistance(distance_m),
                         duration         |-> FormatDuration(duration_s),
                         distance_meters  |-> distance_m,
                         duration_seconds |-> duration_s,
                         distance_value   |-> distance_m,
                         start_location   |-> Location(step.start_location),
                         end_location     |-> Location(step.end_location)]
       IN  ParseSteps_Prepend(Tail(leg_steps), <<step_data>> \o steps, step_number + 1)

\* the body of "for step in leg_steps": one step_data appended per step
RECURSIVE ParseSteps(_, _, _)
ParseSteps(leg_steps, steps, step_number) ==
  IF Len(leg_steps) = 0 THEN [steps |-> steps, step_number |-> step_number]
  ELSE LET step == Head(leg_steps)
           distance_m == Get(step.distance, 0)
           duration_s == Get(step.duration, 0)
           step_data == [step_number      |-> step_number,
                         instruction      |-> step_instruction(step.html_instructions),
                         distance         |-> FormatDistance(distance_m),
                         duration         |-> FormatDuration(duration_s),
                         distance_meters  |-> distance_m,
                         duration_seconds |-> duration_s,
                         distance_value   |-> distance_m,
                         start_location   |-> Location(step.start_location),
                         end_location     |-> Location(step.end_location)]
       IN  ParseSteps(Tail(leg_steps), Append(steps, step_data), step_number + 1)

\* the total replaced by the leg's figure instead of increased by it
add_to_total_Overwrite(total, figure) == Get(figure, 0)

\* total += leg.get(..., {}).get('value', 0)
add_to_total(total, figure) == total + Get(figure, 0)

\* the body of "for leg in legs": totals accumulated, the leg's steps parsed;
\* raised is the TypeError of iterating over a null "steps"
RECURSIVE ParseLegs(_, _)
ParseLegs(legs, acc) ==
  IF Len(legs) = 0 \/ acc.raised THEN acc
  ELSE LET leg == Head(legs)
           total_distance_m == add_to_total(acc.total_distance_m, leg.distance)
           total_duration_s == add_to_total(acc.total_duration_s, leg.duration)
       IN  IF leg.steps.kind = "null"
           THEN [acc EXCEPT !.raised = TRUE]
           ELSE LET leg_steps == IF leg.steps.kind = "list"
                                 THEN leg.steps.items ELSE <<>>
                    r == ParseSteps(leg_steps, acc.steps, acc.step_number)
                IN  ParseLegs(Tail(legs),
                              [total_distance_m |-> total_distance_m,
                               total_duration_s |-> total_duration_s,
                               steps            |-> r.steps,
                               step_number      |-> r.step_number,
                               raised           |-> FALSE])

CurrentLocation == <<"C", "u", "r", "r", "e", "n", "t", " ", "L", "o", "c", "a", "t", "i", "o", "n">>

WalkTo(destination_name) == <<"W", "a", "l", "k", " ", "t", "o", " ">> \o destination_name

\* no step is synthesized
EnsureStep_Never(steps, total_distance_m, total_duration_s, destination_name) ==
  steps

\* "if not steps: steps.append({...})"
EnsureStep(steps, total_distance_m, total_duration_s, destination_name) ==
  IF steps = <<>>
  THEN <<[step_number      |-> 1,
          instruction      |-> WalkTo(destination_name),
          distance         |-> FormatDistance(total_distance_m),
          duration         |-> FormatDuration(total_duration_s),
          distance_meters  |-> total_distance_m,
          duration_seconds |-> total_duration_s,
          start_location   |-> ZeroLocation,
          end_location     |-> ZeroLocation]>>
  ELSE steps

\* legs[0].get('start_address', 'Current Location')
route_start_address(legs) ==
  IF legs[1].start_address = Missing THEN CurrentLocation
  ELSE legs[1].start_address

\* the end address read from the first leg
route_end_address_FirstLeg(legs, destination_name) ==
  IF legs[1].end_address = Missing THEN destination_name
  ELSE legs[1].end_address

\* legs[-1].get('end_address', destination_name)
route_end_address(legs, destination_name) ==
  IF legs[Len(legs)].end_address = Missing THEN destination_name
  ELSE legs[Len(legs)].end_address

\* [raised |-> TRUE] when the function raises ValueError, else the value
\* it returns
parse_google_directions(data, destination_name) ==
  IF data.routes = <<>> THEN [raised |-> TRUE]
  ELSE LET route == data.routes[1]
           legs  == route.legs
       IN  IF legs = <<>> THEN [raised |-> TRUE]
           ELSE LET acc == ParseLegs(legs, [total_distance_m |-> 0,
                                            total_duration_s |-> 0,
                                            steps            |-> <<>>,
                                            step_number      |-> 1,
                                            raised           |-> FALSE])
                IN  IF acc.raised THEN [raised |-> TRUE]
                    ELSE [raised |-> FALSE,
                          value  |->
                            [success |-> TRUE,
                             route   |->
                               [distance         |-> FormatDistance(acc.total_distance_m),
                                duration         |-> FormatDuration(acc.total_duration_s),
                                distance_meters  |-> acc.total_distance_m,
                                duration_seconds |-> acc.total_duration_s,
                                steps            |-> EnsureStep(acc.steps,
                                                       acc.total_distance_m,
                                                       acc.total_duration_s,
                                                       destination_name),
                                start_address    |-> route_start_address(legs),
                                end_address      |->
                                  route_end_address(legs, destination_name)]]]

(***************************************************************************)
(* Responses of get_directions: jsonify({...}), status                     *)
(***************************************************************************)
NoResponse == [status |-> 0]

Failure(status, message) ==
  [status |-> status, success |-> FALSE, message |-> message]

MsgMissingFields      == <<"Missing origin or destination">>
MsgNotConfigured      == <<"Navigation service not configured">>
MsgInvalidFormat      == <<"Invalid origin coordinates format">>
MsgOutOfRange         == <<"Origin coordinates out of range">>
MsgInvalidOrigin      == <<"Invalid origin coordinates">>
MsgRouteNotAvailable  == <<"Route not available">>
MsgLocationNotFound   == <<"Location not found, please try again.">>
MsgUnavailable        == <<"Navigation service unavailable">>
MsgUnableToFind       == <<"Unable to find location">>
MsgParseFailed        == <<"Failed to parse navigation data">>
MsgTimeout            == <<"Navigation service timeout">>
MsgServiceError       == <<"Navigation service error">>

\* f'Could not find "{destination}" near your location. Please try a more
\* specific address.'
MsgCouldNotFind(dest) ==
  <<"Could not find \"">> \o dest
    \o <<"\" near your location. Please try a more specific address.">>

(***************************************************************************)
(* get_directions, up to the first outbound call                           *)
(***************************************************************************)
\* a request field or a destination that is JSON but not a string
NotAString == <<"<number>">>

\* "if api_key is None": an empty credential passes
api_key_missing_NoneOnly(k) == k = Missing

\* "if not api_key"
api_key_missing(k) == k = Missing \/ k = <<>>

\* the origin checks without the range check
validate_origin_FormatOnly(o) ==
  IF ~coord_pattern(o) THEN Failure(400, MsgInvalidFormat) ELSE NoResponse

\* the origin checks: format, then range
validate_origin(o) ==
  IF ~coord_pattern(o) THEN Failure(400, MsgInvalidFormat)
  ELSE LET c == ParseCoords(o)
       IN  IF ~InRange(c.lat, -90, 90) \/ ~InRange(c.lng, -180, 180)
           THEN Failure(400, MsgOutOfRange)
           ELSE NoResponse

\* the response the handler gives before any outbound call, NoResponse when
\* it goes on to resolve the destination; re.match on a value that is not a
\* string raises TypeError, which the outermost handler turns into a 500
validate_request(o, d, k) ==
  IF o = Missing \/ d = Missing THEN Failure(400, MsgMissingFields)
  ELSE IF api_key_missing(k) THEN Failure(500, MsgNotConfigured)
  ELSE IF o = NotAString THEN Failure(500, MsgServiceError)
  ELSE IF validate_origin(o) # NoResponse THEN validate_origin(o)
  ELSE IF d = NotAString THEN Failure(500, MsgServiceError)
  ELSE NoResponse

\* every destination is geocoded
needs_geocoding_Always(d) == TRUE

\* "if not re.match(coord_pattern, destination)": a text destination is
\* geocoded, a coordinate destination is used as it is
needs_geocoding(d) == ~coord_pattern(d)

(***************************************************************************)
(* What a provider may answer.  kind is "timeout" (requests' Timeout),     *)
(* "transport" (any other RequestException, raise_for_status included),    *)
(* "bad_json" (response.json() raises) or "json" (a decoded body).         *)
(***************************************************************************)
TransportFailures == {[kind |-> k] : k \in {"timeout", "transport", "bad_json"}}

\* what is remembered of an answer: how the call ended and, for a decoded
\* body, its status and whether it holds a route and a leg
Answer(outcome) ==
  [kind   |-> outcome.kind,
   status |-> IF outcome.kind = "json" THEN outcome.status ELSE "-",
   shape  |-> IF outcome.kind # "json" \/ "routes" \notin DOMAIN outcome THEN "-"
              ELSE IF outcome.routes = <<>> THEN "no_routes"
              ELSE IF outcome.routes[1].legs = <<>> THEN "no_legs"
              ELSE "legs"]

None == [kind |-> "none"]

\* results[0]['geometry']['location'] raises KeyError when has_geometry is
\* FALSE
geocode_address(outcome) ==
  IF outcome.kind # "json" THEN None
  ELSE IF outcome.status # "OK"
       THEN IF outcome.status = "ZERO_RESULTS"
            THEN [kind |-> "error", error |-> "ZERO_RESULTS",
                  message |-> MsgLocationNotFound]
            ELSE IF outcome.status = "REQUEST_DENIED"
            THEN [kind |-> "error", error |-> "REQUEST_DENIED",
                  message |-> MsgUnavailable]
            ELSE [kind |-> "error", error |-> outcome.status,
                  message |-> MsgUnableToFind]
       ELSE IF Len(outcome.results) > 0
            THEN IF outcome.results[1].has_geometry
                 THEN [kind |-> "coords", lat |-> outcome.results[1].lat,
                       lng |-> outcome.results[1].lng]
                 ELSE None
            ELSE None

\* every exception inside find_nearby_place is caught and gives None
find_nearby_place(place_type, outcome) ==
  IF outcome.kind # "json" THEN None
  ELSE IF outcome.status = "OK" /\ Len(outcome.results) > 0
       THEN IF outcome.results[1].has_geometry
            THEN [kind |-> "coords", lat |-> outcome.results[1].lat,
                  lng |-> outcome.results[1].lng,
                  name |-> IF outcome.results[1].name = Missing
                           THEN place_type ELSE outcome.results[1].name]
            ELSE None
       ELSE None

\* a handler that passes the provider's error_message on as the message
get_google_directions_Echo(outcome) ==
  IF outcome.kind # "json" THEN None
  ELSE IF outcome.status # "OK"
       THEN IF outcome.status = "ZERO_RESULTS"
            THEN [kind |-> "error", error |-> "ZERO_RESULTS",
                  message |-> MsgRouteNotAvailable]
            ELSE IF outcome.status = "NOT_FOUND"
            THEN [kind |-> "error", error |-> "NOT_FOUND",
                  message |-> MsgLocationNotFound]
            ELSE IF outcome.status = "REQUEST_DENIED"
            THEN [kind |-> "error", error |-> "REQUEST_DENIED",
                  message |-> MsgUnavailable]
            ELSE [kind |-> "error", error |-> outcome.status,
                  message |-> IF outcome.error_message = Missing
                              THEN <<"Unknown error">>
                              ELSE outcome.error_message]
       ELSE IF outcome.routes = <<>> THEN None
       ELSE IF outcome.routes[1].legs = <<>> THEN None
       ELSE [kind |-> "data", status |-> outcome.status, routes |-> outcome.routes]

\* error_message is read for the log only
get_google_directions(outcome) ==
  IF outcome.kind # "json" THEN None
  ELSE IF outcome.status # "OK"
       THEN IF outcome.status = "ZERO_RESULTS"
            THEN [kind |-> "error", error |-> "ZERO_RESULTS",
                  message |-> MsgRouteNotAvailable]
            ELSE IF outcome.status = "NOT_FOUND"
            THEN [kind |-> "error", error |-> "NOT_FOUND",
                  message |-> MsgLocationNotFound]
            ELSE IF outcome.status = "REQUEST_DENIED"
            THEN [kind |-> "error", error |-> "REQUEST_DENIED",
                  message |-> MsgUnavailable]
            ELSE [kind |-> "error", error |-> outcome.status,
                  message |-> MsgRouteNotAvailable]
       ELSE IF outcome.routes = <<>> THEN None
       ELSE IF outcome.routes[1].legs = <<>> THEN None
       ELSE [kind |-> "data", status |-> outcome.status, routes |-> outcome.routes]

\* "if not geocoded_coords or 'error' in geocoded_coords"
geocoding_failed(g) == g = None \/ g.kind = "error"

\* f"{geocoded_coords['lat']},{geocoded_coords['lng']}"
format_coords(c) == IntToStr(c.lat) \o <<",">> \o IntToStr(c.lng)

\* the handler without the try/except around the normalizer: an exception
\* raised there leaves the request without a response
directions_response_NoCatch(data, destination_name) ==
  IF data = None THEN Failure(404, MsgRouteNotAvailable)
  ELSE IF data.kind = "error"
       THEN Failure(404, data.message)
       ELSE LET navigation_data ==
                  parse_google_directions(data, destination_name)
            IN  IF navigation_data.raised THEN NoResponse
                ELSE [status |-> 200] @@ navigation_data.value

\* get_directions after get_google_directions has returned
directions_response(data, destination_name) ==
  IF data = None THEN Failure(404, MsgRouteNotAvailable)
  ELSE IF data.kind = "error"
       THEN Failure(404, data.message)
       ELSE LET navigation_data ==
                  parse_google_directions(data, destination_name)
            IN  IF navigation_data.raised THEN Failure(500, MsgParseFailed)
                ELSE [status |-> 200] @@ navigation_data.value

(***************************************************************************)
(* Inputs: requests and provider answers                                   *)
(***************************************************************************)
OriginAlphabet == {"9", ".", ",", "-"}

OriginSamples ==
  {<<"1", "2", ".", "9", ",", "7", "7", ".", "6">>,
   <<"9", ",", "9", "9", "9">>,
   <<"9", "0", ".", "1", ",", "0">>,
   <<"-", "9", "0", ",", "1", "8", "0", ".", "0">>,
   <<"1", ",", "2", "\n">>,
   <<"h", "o", "m", "e">>,
   Missing, NotAString}

Origins == StringsUpTo(OriginAlphabet, MaxOriginLen) \cup OriginSamples

Destinations ==
  {<<"1", "2", ".", "9", "1", ",", "7", "7", ".", "6", "1">>,
   <<"9", "1", ",", "0">>,
   <<"0", ",", "1", "8", "1">>,
   <<"l", "i", "b", "r", "a", "r", "y">>,
   <<" ", "P", "a", "r", "k", "s">>,
   <<"z", "o", "o">>,
   Missing, NotAString}

ApiKeys == {Missing, <<>>, <<"k">>}

ProviderLocations == {[lat |-> 12, lng |-> 77], [lat |-> -7, lng |-> 110]}

CityLibrary == <<"C", "i", "t", "y", " ", "L", "i", "b", "r", "a", "r", "y">>

GeocodeErrorStatuses == {"ZERO_RESULTS", "REQUEST_DENIED", "OVER_QUERY_LIMIT"}

DirectionsErrorStatuses ==
  {"ZERO_RESULTS", "NOT_FOUND", "REQUEST_DENIED", "OVER_QUERY_LIMIT",
   "INVALID_REQUEST"}

\* the error_message of a non-OK directions body
ErrorMessages ==
  {Missing, <<"You have exceeded your daily request quota for this API.">>}

GeocodeOutcomes ==
  TransportFailures
  \cup {[kind |-> "json", status |-> st, results |-> <<>>] :
          st \in GeocodeErrorStatuses \cup {"OK"}}
  \cup {[kind |-> "json", status |-> "OK",
         results |-> <<[has_geometry |-> TRUE, lat |-> l.lat, lng |-> l.lng]>>] :
          l \in ProviderLocations}
  \cup {[kind |-> "json", status |-> "OK",
         results |-> <<[has_geometry |-> FALSE, lat |-> 0, lng |-> 0]>>]}

PlacesOutcomes ==
  TransportFailures
  \cup {[kind |-> "json", status |-> st, results |-> <<>>] :
          st \in {"ZERO_RESULTS", "REQUEST_DENIED", "OK"}}
  \cup {[kind |-> "json", status |-> "OK",
         results |-> <<[has_geometry |-> TRUE, lat |-> l.lat, lng |-> l.lng,
                        name |-> n]>> \o more] :
          l \in {[lat |-> 12, lng |-> 77]},
          n \in {CityLibrary, Missing},
          more \in {<<[has_geometry |-> TRUE, lat |-> -7, lng |-> 110,
                       name |-> CityLibrary]>>}}
  \cup {[kind |-> "json", status |-> "OK",
         results |-> <<[has_geometry |-> FALSE, lat |-> 0, lng |-> 0,
                        name |-> CityLibrary]>>]}

StepGoToward ==
  [distance |-> 250, duration |-> 45,
   html_instructions |-> <<"<", "b", ">", "G", "o", "<", "/", "b", ">", " ", "t", "o", "w", "a", "r", "d", "&", "n", "b", "s", "p", ";", "A">>,
   start_location |-> [lat |-> 12, lng |-> 77],
   end_location |-> [lat |-> 12, lng |-> 78]]

StepBare ==
  [distance |-> Absent, duration |-> Absent, html_instructions |-> Missing,
   start_location |-> [lat |-> Absent, lng |-> Absent],
   end_location |-> [lat |-> Absent, lng |-> Absent]]

StepMarkupOnly ==
  [distance |-> 1500, duration |-> 125,
   html_instructions |-> <<"<", "d", "i", "v", ">", " ", "<", "/", "d", "i", "v", ">">>,
   start_location |-> [lat |-> 12, lng |-> 78],
   end_location |-> [lat |-> Absent, lng |-> 79]]

MainSt == <<"1", " ", "M", "a", "i", "n", " ", "S", "t">>
ParkRd == <<"2", " ", "P", "a", "r", "k", " ", "R", "d">>

LegSamples ==
  {[distance |-> 400, duration |-> 45, steps |-> [kind |-> "absent"],
    start_address |-> MainSt, end_address |-> ParkRd],
   [distance |-> 1500, duration |-> 125, steps |-> [kind |-> "null"],
    start_address |-> MainSt, end_address |-> Missing],
   [distance |-> 1500, duration |-> 125,
    steps |-> [kind |-> "list", items |-> <<StepGoToward>>],
    start_address |-> ParkRd, end_address |-> Missing],
   [distance |-> Absent, duration |-> 60,
    steps |-> [kind |-> "list", items |-> <<StepBare, StepMarkupOnly>>],
    start_address |-> Missing, end_address |-> ParkRd]}

Routes ==
  {<<>>} \cup {<<[legs |-> l]>> : l \in UNION {[1..n -> LegSamples] : n \in 0..MaxLegs}}

DirectionsOutcomes ==
  TransportFailures
  \cup {[kind |-> "json", status |-> st, routes |-> <<>>, error_message |-> e] :
          st \in DirectionsErrorStatuses, e \in ErrorMessages}
  \cup {[kind |-> "json", status |-> "OK", routes |-> r] : r \in Routes}

(***************************************************************************)
(* The handler as a state machine                                          *)
(***************************************************************************)
NoProbe == [op |-> "none"]

NoExchange == [status |-> 0]

Init ==
  /\ pc = "idle"
  /\ origin = Missing
  /\ destination = Missing
  /\ api_key = Missing
  /\ calls = <<>>
  /\ answers = <<>>
  /\ geocoded_coords = None
  /\ places_result = None
  /\ destination_coords = Missing
  /\ directions_data = None
  /\ parse_calls = 0
  /\ response = NoResponse
  /\ probe = NoProbe
  /\ session = [current_language |-> Missing, current_tone |-> Missing]
  /\ exchange = NoExchange

\* a request arrives; the handler runs up to its first outbound call
GetDirections(o, d, k) ==
  /\ pc = "idle"
  /\ origin' = o
  /\ destination' = d
  /\ api_key' = k
  /\ IF validate_request(o, d, k) # NoResponse
     THEN /\ response' = validate_request(o, d, k)
          /\ pc' = "done"
          /\ UNCHANGED destination_coords
     ELSE /\ response' = NoResponse
          /\ IF needs_geocoding(d)
             THEN pc' = "geocode" /\ UNCHANGED destination_coords
             ELSE pc' = "directions" /\ destination_coords' = d
  /\ UNCHANGED <<calls, answers, geocoded_coords, places_result, directions_data,
                 parse_calls, probe, session, exchange>>

GeocodeCall == [api |-> "geocode", address |-> enhance_search_terms(destination),
                timeout |-> 30]

\* a handler that answers "could not find" as soon as geocoding fails
GeocodeAddress_NoFallback(outcome) ==
  /\ pc = "geocode"
  /\ calls' = Append(calls, GeocodeCall)
  /\ answers' = Append(answers, Answer(outcome))
  /\ geocoded_coords' = geocode_address(outcome)
  /\ IF geocoding_failed(geocoded_coords')
     THEN /\ response' = Failure(404, MsgCouldNotFind(destination))
          /\ pc' = "done"
          /\ UNCHANGED destination_coords
     ELSE /\ destination_coords' = format_coords(geocoded_coords')
          /\ pc' = "directions"
          /\ UNCHANGED response
  /\ UNCHANGED <<origin, destination, api_key, places_result, directions_data,
                 parse_calls, probe, session, exchange>>

\* geocode_address(destination, api_key) and the handler up to the next call
GeocodeAddress(outcome) ==
  /\ pc = "geocode"
  /\ calls' = Append(calls, GeocodeCall)
  /\ answers' = Append(answers, Answer(outcome))
  /\ geocoded_coords' = geocode_address(outcome)
  /\ IF geocoding_failed(geocoded_coords')
     THEN /\ pc' = "places"
          /\ UNCHANGED <<destination_coords, response>>
     ELSE IF geocoded_coords'.kind = "error"
     THEN /\ response' = Failure(404, geocoded_coords'.message)
          /\ pc' = "done"
          /\ UNCHANGED destination_coords
     ELSE /\ destination_coords' = format_coords(geocoded_coords')
          /\ pc' = "directions"
          /\ UNCHANGED response
  /\ UNCHANGED <<origin, destination, api_key, places_result, directions_data,
                 parse_calls, probe, session, exchange>>

\* a search anchored at a fixed location instead of the request's origin
PlacesCall_FixedLocation ==
  [api |-> "places", location |-> ParseCoords(<<"0", ",", "0">>), radius |-> 5000,
   type |-> search_type(destination), timeout |-> 30]

PlacesCall == [api |-> "places", location |-> ParseCoords(origin), radius |-> 5000,
               type |-> search_type(destination), timeout |-> 30]

\* find_nearby_place(destination, origin, api_key) and the handler up to the
\* next call
FindNearbyPlace(outcome) ==
  /\ pc = "places"
  /\ calls' = Append(calls, PlacesCall)
  /\ answers' = Append(answers, Answer(outcome))
  /\ places_result' = find_nearby_place(destination, outcome)
  /\ IF places_result'.kind = "coords"
     THEN /\ geocoded_coords' = places_result'
          /\ destination_coords' = format_coords(places_result')
          /\ pc' = "directions"
          /\ UNCHANGED response
     ELSE /\ response' = Failure(404, MsgCouldNotFind(destination))
          /\ pc' = "done"
          /\ UNCHANGED <<geocoded_coords, destination_coords>>
  /\ UNCHANGED <<origin, destination, api_key, directions_data, parse_calls,
                 probe, session, exchange>>

DirectionsCall == [api |-> "directions", origin |-> origin,
                   destination |-> destination_coords, mode |-> "walking",
                   units |-> "metric", language |-> "en", timeout |-> 30]

\* a handler that repeats the directions call when it timed out
GetGoogleDirections_RetryOnTimeout(outcome) ==
  /\ pc = "directions"
  /\ calls' = Append(calls, DirectionsCall)
  /\ answers' = Append(answers, Answer(outcome))
  /\ directions_data' = get_google_directions(outcome)
  /\ parse_calls' = IF directions_data'.kind = "data"
                    THEN parse_calls + 1 ELSE parse_calls
  /\ IF outcome.kind = "timeout"
     THEN pc' = "directions" /\ UNCHANGED response
     ELSE /\ response' = directions_response(directions_data', destination)
          /\ pc' = "done"
  /\ UNCHANGED <<origin, destination, api_key, geocoded_coords, places_result,
                 destination_coords, probe, session, exchange>>

\* get_google_directions(origin, destination_coords, api_key), then
\* parse_google_directions when a payload came back, then the response
GetGoogleDirections(outcome) ==
  /\ pc = "directions"
  /\ calls' = Append(calls, DirectionsCall)
  /\ answers' = Append(answers, Answer(outcome))
  /\ directions_data' = get_google_directions(outcome)
  /\ parse_calls' = IF directions_data'.kind = "data"
                    THEN parse_calls + 1 ELSE parse_calls
  /\ response' = directions_response(directions_data', destination)
  /\ pc' = "done"
  /\ UNCHANGED <<origin, destination, api_key, geocoded_coords, places_result,
                 destination_coords, probe, session, exchange>>

\* the response is returned; nothing of the request is kept
Respond ==
  /\ pc = "done"
  /\ pc' = "idle"
  /\ origin' = Missing
  /\ destination' = Missing
  /\ api_key' = Missing
  /\ calls' = <<>>
  /\ answers' = <<>>
  /\ geocoded_coords' = None
  /\ places_result' = None
  /\ destination_coords' = Missing
  /\ directions_data' = None
  /\ parse_calls' = 0
  /\ response' = NoResponse
  /\ UNCHANGED <<probe, session, exchange>>

Next ==
  \/ pc = "idle" /\ \E o \in Origins, d \in Destinations, k \in ApiKeys :
                       GetDirections(o, d, k)
  \/ pc = "geocode" /\ \E outcome \in GeocodeOutcomes : GeocodeAddress(outcome)
  \/ pc = "places" /\ \E outcome \in PlacesOutcomes : FindNearbyPlace(outcome)
  \/ pc = "directions" /\ \E outcome \in DirectionsOutcomes :
                             GetGoogleDirections(outcome)
  \/ Respond

Spec == Init /\ [][Next]_vars

(***************************************************************************)
(* The helpers of the normalizer applied on their own: one raw instruction  *)
(* cleaned, one distance and one duration displayed                         *)
(***************************************************************************)
InstructionAlphabet == {"<", ">", " ", "a", "&"}

InstructionSamples ==
  {Missing,
   <<"&", "n", "b", "s", "p", ";">>,
   <<"<", "b", ">", "&", "n", "b", "s", "p", ";", "<", "/", "b", ">">>,
   <<"a", " ", "<", "b", ">", " ", "a">>,
   <<"a", "&", "n", "b", "s", "p", ";", " ", "a">>,
   StepMarkupOnly.html_instructions,
   StepGoToward.html_instructions}

RawInstructions ==
  StringsUpTo(InstructionAlphabet, MaxInstructionLen) \cup InstructionSamples

CleanInstruction(html_instructions) ==
  /\ probe = NoProbe
  /\ probe' = [op |-> "instruction", input |-> html_instructions,
               output |-> step_instruction(html_instructions)]
  /\ UNCHANGED <<handler_vars, session, exchange>>

StepDistance(distance_m) ==
  /\ probe = NoProbe
  /\ probe' = [op |-> "distance", input |-> distance_m,
               output |-> FormatDistance(distance_m)]
  /\ UNCHANGED <<handler_vars, session, exchange>>

StepDuration(duration_s) ==
  /\ probe = NoProbe
  /\ probe' = [op |-> "duration", input |-> duration_s,
               output |-> FormatDuration(duration_s)]
  /\ UNCHANGED <<handler_vars, session, exchange>>

\* what clean_instruction_text looks for and what it puts in its place
SubstitutionPhrases ==
  {<<"t", "o", "w", "a", "r", "d">>,
   <<"t", "o", "w", "a", "r", "d", "s">>,
   <<"D", "e", "s", "t", "i", "n", "a", "t", "i", "o", "n", " ", "w", "i", "l", "l", " ", "b", "e", " ", "o", "n", " ", "t", "h", "e", " ", "r", "i", "g", "h", "t">>,
   <<"Y", "o", "u", "r", " ", "d", "e", "s", "t", "i", "n", "a", "t", "i", "o", "n", " ", "w", "i", "l", "l", " ", "b", "e", " ", "o", "n", " ", "t", "h", "e", " ", "r", "i", "g", "h", "t">>,
   <<"D", "e", "s", "t", "i", "n", "a", "t", "i", "o", "n", " ", "w", "i", "l", "l", " ", "b", "e", " ", "o", "n", " ", "t", "h", "e", " ", "l", "e", "f", "t">>,
   <<"Y", "o", "u", "r", " ", "d", "e", "s", "t", "i", "n", "a", "t", "i", "o", "n", " ", "w", "i", "l", "l", " ", "b", "e", " ", "o", "n", " ", "t", "h", "e", " ", "l", "e", "f", "t">>,
   <<"C", "o", "n", "t", "i", "n", "u", "e", " ", "o", "n">>,
   <<"C", "o", "n", "t", "i", "n", "u", "e", " ", "a", "l", "o", "n", "g">>}

\* instructions made of n phrases of the table, a blank between two phrases
RECURSIVE PhraseInstructions(_)
PhraseInstructions(n) ==
  IF n = 1 THEN SubstitutionPhrases
  ELSE {head \o <<" ">> \o phrase :
          head \in PhraseInstructions(n - 1), phrase \in SubstitutionPhrases}

VoiceInstructions == UNION {PhraseInstructions(n) : n \in 1..MaxPhrases}

\* clean_instruction_text applied to an instruction, and again to its result
CleanInstructionText(instruction) ==
  /\ probe = NoProbe
  /\ probe' = [op |-> "voice", input |-> instruction,
               output |-> clean_instruction_text(instruction),
               again |-> clean_instruction_text(clean_instruction_text(instruction))]
  /\ UNCHANGED <<handler_vars, session, exchange>>

FormatNext ==
  \/ probe = NoProbe /\ \E html_instructions \in RawInstructions :
                           CleanInstruction(html_instructions)
  \/ probe = NoProbe /\ \E instruction \in VoiceInstructions :
                           CleanInstructionText(instruction)
  \/ probe = NoProbe /\ \E distance_m \in 0..MaxMeters : StepDistance(distance_m)
  \/ probe = NoProbe /\ \E duration_s \in 0..MaxSeconds : StepDuration(duration_s)

FormatSpec == Init /\ [][FormatNext]_vars

(***************************************************************************)
(* process_command and GeminiService: the session preferences and the      *)
(* classification of a voice command.  A dict is a record, a key it lacks  *)
(* is not in its DOMAIN; a language or tone code is a sequence of one       *)
(* element, the empty string the empty sequence.  Commands are ASCII, so    *)
(* the keywords of the other scripts cannot occur in them and are left out. *)
(***************************************************************************)
\* sub in s
Contains(s, sub) == \E i \in 1..Len(s) : StartsWithAt(s, i, sub)

\* any(word in s for word in words)
AnyIn(words, s) == \E word \in words : Contains(s, word)

TranslatedLanguages ==
  {<<"en-IN">>, <<"hi-IN">>, <<"ta-IN">>, <<"te-IN">>, <<"bn-IN">>, <<"mr-IN">>,
   <<"gu-IN">>}

\* the text of key in language, English when the language has no table; a
\* text is named by its place in the table, <<key, language>>
get_translation(key, language) ==
  IF language \in TranslatedLanguages THEN <<key>> \o language
  ELSE <<key, "en-IN">>

\* re.match of one of meaningless_patterns on the stripped lower-case command
meaningless(command_lower) ==
  \/ command_lower \in {<<"u", "m">>,
                       <<"u", "h">>,
                       <<"a", "h">>,
                       <<"e", "r">>,
                       <<"h", "m">>,
                       <<"h", "m", "m">>,
                       <<"y", "e", "s">>,
                       <<"y", "e", "a", "h">>,
                       <<"n", "o">>,
                       <<"o", "k", "a", "y">>,
                       <<"o", "k">>}
  \/ StartsWithAt(command_lower, 1, <<"s", "o", "r", "r", "y", " ", "i", " ", "d", "i", "d", "n", "'", "t", " ", "u", "n", "d", "e", "r", "s", "t", "a", "n", "d">>)
  \/ StartsWithAt(command_lower, 1, <<"s", "o", "r", "r", "y", " ", "i", " ", "d", "i", "d", "n", "t", " ", "u", "n", "d", "e", "r", "s", "t", "a", "n", "d">>)
  \/ StartsWithAt(command_lower, 1, <<"p", "l", "e", "a", "s", "e", " ", "t", "r", "y", " ", "a", "g", "a", "i", "n">>)
  \/ command_lower = <<"w", "h", "a", "t">>
  \/ command_lower = <<>>
  \/ Len(command_lower) <= 2

DestinationPatterns == {<<"t", "a", "k", "e", " ", "m", "e", " ", "t", "o">>,
                       <<"g", "o", " ", "t", "o">>,
                       <<"n", "a", "v", "i", "g", "a", "t", "e", " ", "t", "o">>}

\* re.search(r'(?:take me to|go to|navigate to)\s+(.+)', command): the
\* leftmost place where one of the three is followed by whitespace and
\* something more; group(1).strip()
extract_destination(command) ==
  LET found(i) == \E pat \in DestinationPatterns :
                    /\ StartsWithAt(command, i, pat)
                    /\ i + Len(pat) <= Len(command)
                    /\ IsSpace(command[i + Len(pat)])
                    /\ strip(SubSeq(command, i + Len(pat), Len(command))) # <<>>
  IN  IF \E i \in 1..Len(command) : found(i)
      THEN LET i == CHOOSE i \in 1..Len(command) :
                      found(i) /\ \A j \in 1..(i - 1) : ~found(j)
               pat == CHOOSE pat \in DestinationPatterns :
                        StartsWithAt(command, i, pat)
           IN  strip(SubSeq(command, i + Len(pat), Len(command)))
      ELSE <<"t", "h", "e", " ", "r", "e", "q", "u", "e", "s", "t", "e", "d", " ", "l", "o", "c", "a", "t", "i", "o", "n">>

\* language_map in its order, the names that are ASCII
language_map ==
  <<[name |-> <<"h", "i", "n", "d", "i">>, code |-> <<"hi-IN">>],
    [name |-> <<"t", "a", "m", "i", "l">>, code |-> <<"ta-IN">>],
    [name |-> <<"t", "e", "l", "u", "g", "u">>, code |-> <<"te-IN">>],
    [name |-> <<"b", "e", "n", "g", "a", "l", "i">>, code |-> <<"bn-IN">>],
    [name |-> <<"m", "a", "r", "a", "t", "h", "i">>, code |-> <<"mr-IN">>],
    [name |-> <<"g", "u", "j", "a", "r", "a", "t", "i">>, code |-> <<"gu-IN">>],
    [name |-> <<"e", "n", "g", "l", "i", "s", "h">>, code |-> <<"en-IN">>]>>

extract_language(command) ==
  LET hit(i) == Contains(lower(command), language_map[i].name)
  IN  IF \E i \in 1..Len(language_map) : hit(i)
      THEN language_map[CHOOSE i \in 1..Len(language_map) :
                          hit(i) /\ \A j \in 1..(i - 1) : ~hit(j)].code
      ELSE <<"en-IN">>

\* tone_map in its order
tone_map ==
  <<[name |-> <<"f", "r", "i", "e", "n", "d", "l", "y">>, code |-> <<"friendly">>],
    [name |-> <<"f", "o", "r", "m", "a", "l">>, code |-> <<"formal">>],
    [name |-> <<"p", "r", "o", "f", "e", "s", "s", "i", "o", "n", "a", "l">>, code |-> <<"formal">>],
    [name |-> <<"e", "n", "e", "r", "g", "e", "t", "i", "c">>, code |-> <<"energetic">>],
    [name |-> <<"e", "n", "t", "h", "u", "s", "i", "a", "s", "t", "i", "c">>, code |-> <<"energetic">>],
    [name |-> <<"e", "x", "c", "i", "t", "e", "d">>, code |-> <<"energetic">>],
    [name |-> <<"c", "a", "l", "m">>, code |-> <<"calm">>],
    [name |-> <<"p", "e", "a", "c", "e", "f", "u", "l">>, code |-> <<"calm">>],
    [name |-> <<"s", "o", "o", "t", "h", "i", "n", "g">>, code |-> <<"calm">>],
    [name |-> <<"r", "o", "b", "o", "t", "i", "c">>, code |-> <<"robotic">>],
    [name |-> <<"r", "o", "b", "o", "t">>, code |-> <<"robotic">>],
    [name |-> <<"n", "e", "u", "t", "r", "a", "l">>, code |-> <<"robotic">>]>>

\* Missing stands for None
extract_tone(command) ==
  LET hit(i) == Contains(lower(command), tone_map[i].name)
  IN  IF \E i \in 1..Len(tone_map) : hit(i)
      THEN tone_map[CHOOSE i \in 1..Len(tone_map) :
                      hit(i) /\ \A j \in 1..(i - 1) : ~hit(j)].code
      ELSE Missing

UnknownCommand(language) ==
  [action |-> "unknown", response |-> get_translation("unknown_command", language)]

\* _fallback_command_processing: "if start/begin" without detection/scanning
\* skips every elif and ends at the unknown command
fallback_command_processing(command, language, tone) ==
  LET command_lower == strip(lower(command))
  IN  IF meaningless(command_lower) THEN [action |-> "silent", response |-> <<>>]
      ELSE IF AnyIn({<<"s", "t", "a", "r", "t">>,
                    <<"b", "e", "g", "i", "n">>}, command_lower)
      THEN IF AnyIn({<<"d", "e", "t", "e", "c", "t", "i", "o", "n">>,
                    <<"s", "c", "a", "n", "n", "i", "n", "g">>}, command_lower)
           THEN [action |-> "start_detection",
                 response |-> get_translation("start_detection", language)]
           ELSE UnknownCommand(language)
      ELSE IF AnyIn({<<"s", "t", "o", "p">>,
                    <<"p", "a", "u", "s", "e">>}, command_lower)
      THEN [action |-> "stop_detection",
            response |-> get_translation("stop_detection", language)]
      ELSE IF AnyIn({<<"t", "a", "k", "e", " ", "m", "e">>,
                    <<"n", "a", "v", "i", "g", "a", "t", "e">>,
                    <<"g", "o", " ", "t", "o">>}, command_lower)
      THEN [action |-> "navigate",
            destination |-> extract_destination(command_lower),
            response |-> get_translation("navigation_ready", language) \o <<" ">>
                           \o extract_destination(command_lower)]
      ELSE IF AnyIn({<<"l", "o", "c", "a", "t", "i", "o", "n">>,
                    <<"e", "n", "a", "b", "l", "e", " ", "l", "o", "c", "a", "t", "i", "o", "n">>}, command_lower)
      THEN [action |-> "enable_location",
            response |-> get_translation("enable_location", language)]
      ELSE IF AnyIn({<<"c", "h", "a", "n", "g", "e", " ", "l", "a", "n", "g", "u", "a", "g", "e">>,
                    <<"s", "w", "i", "t", "c", "h", " ", "l", "a", "n", "g", "u", "a", "g", "e">>,
                    <<"s", "p", "e", "a", "k", " ", "i", "n">>}, command_lower)
      THEN [action |-> "change_language",
            language |-> extract_language(command_lower),
            response |-> get_translation("language_changed", language)]
      ELSE IF AnyIn({<<"c", "h", "a", "n", "g", "e", " ", "t", "o", "n", "e">>,
                    <<"s", "w", "i", "t", "c", "h", " ", "t", "o", "n", "e">>,
                    <<"v", "o", "i", "c", "e", " ", "t", "o", "n", "e">>,
                    <<"b", "e", " ", "m", "o", "r", "e">>,
                    <<"s", "p", "e", "a", "k">>,
                    <<"s", "o", "u", "n", "d">>}, command_lower)
              /\ extract_tone(command_lower) # Missing
      THEN [action |-> "change_tone",
            tone |-> extract_tone(command_lower),
            response |-> <<"Voice tone changed to ">> \o extract_tone(command_lower)]
      ELSE UnknownCommand(language)

\* result[key] = value
SetItem(result, key, value) == (key :> value) @@ result

valid_actions ==
  {"start_detection", "stop_detection", "navigate", "enable_location",
   "change_language", "change_tone", "unknown"}

validate_and_enhance_response(result, language, tone) ==
  LET r1 == IF "action" \notin DOMAIN result
            THEN SetItem(result, "action", "unknown") ELSE result
      r2 == IF "response" \notin DOMAIN r1
            THEN SetItem(r1, "response", get_translation("unknown_command", language))
            ELSE r1
      r3 == IF r2.action \notin valid_actions
            THEN SetItem(SetItem(r2, "action", "unknown"), "response",
                         get_translation("unknown_command", language))
            ELSE r2
  IN  SetItem(r3, "current_tone", tone)

\* what the classifier does with a command: "unavailable" when there is no
\* client, "raises" when the call or the decoding of its answer raises,
\* "json" when it answers with a result
process_voice_command(command, language, tone, outcome) ==
  IF outcome.kind = "json"
  THEN validate_and_enhance_response(outcome.result, language, tone)
  ELSE fallback_command_processing(command, language, tone)

\* dict.get(key, default)
GetKey(d, key, default) == IF key \in DOMAIN d THEN d[key] ELSE default

\* session.get(key, default)
SessionGet(s, key, default) == IF s[key] = Missing THEN default ELSE s[key]

\* result.get(key) is truthy
Truthy(result, key) == key \in DOMAIN result /\ result[key] # <<>>

\* a session that takes the language and tone of every result that has one
update_session_AnyAction(s, result) ==
  LET s1 == IF Truthy(result, "language")
            THEN [s EXCEPT !.current_language = result.language] ELSE s
  IN  IF Truthy(result, "tone")
      THEN [s1 EXCEPT !.current_tone = result.tone] ELSE s1

\* "Update session if language or tone changed"
update_session(s, result) ==
  LET s1 == IF result.action = "change_language" /\ Truthy(result, "language")
            THEN [s EXCEPT !.current_language = result.language] ELSE s
  IN  IF result.action = "change_tone" /\ Truthy(result, "tone")
      THEN [s1 EXCEPT !.current_tone = result.tone] ELSE s1

NoData == [none |-> TRUE]

\* process_command: the session it leaves and the response it gives; a
\* command that is not a string makes the fallback raise, which is answered
\* with 500
process_command(data, s, outcome) ==
  IF data = NoData \/ "command" \notin DOMAIN data
  THEN [session |-> s, status |-> 400,
        body |-> [error |-> <<"Missing command in request">>]]
  ELSE IF data.command = NotAString /\ outcome.kind # "json"
  THEN [session |-> s, status |-> 500, body |-> [error |-> <<"str(e)">>]]
  ELSE LET language == GetKey(data, "language",
                              SessionGet(s, "current_language", <<"en-IN">>))
           tone     == GetKey(data, "tone", SessionGet(s, "current_tone", <<"friendly">>))
           result   == process_voice_command(data.command, language, tone, outcome)
           s2       == update_session(s, result)
       IN  [session |-> s2, status |-> 200,
            body |-> SetItem(SetItem(result, "current_language",
                                     SessionGet(s2, "current_language", <<"en-IN">>)),
                             "current_tone",
                             SessionGet(s2, "current_tone", <<"friendly">>))]

DestinationWords == {<<"b", "u", "s">>,
                    <<"s", "t", "o", "p">>,
                    <<"S", "t", "a", "r", "t">>}

\* destinations of n words, a blank between two words
RECURSIVE DestinationsOfWords(_)
DestinationsOfWords(n) ==
  IF n = 1 THEN DestinationWords
  ELSE {head \o <<" ">> \o word :
          head \in DestinationsOfWords(n - 1), word \in DestinationWords}

NavigationCommands ==
  {pat \o <<" ">> \o x :
     pat \in {<<"t", "a", "k", "e", " ", "m", "e", " ", "t", "o">>,
              <<"g", "o", " ", "t", "o">>,
              <<"n", "a", "v", "i", "g", "a", "t", "e", " ", "t", "o">>},
     x \in UNION {DestinationsOfWords(n) : n \in 1..MaxDestinationWords}}

OtherCommands ==
  {<<"s", "t", "a", "r", "t", " ", "d", "e", "t", "e", "c", "t", "i", "o", "n">>,
   <<"b", "e", "g", "i", "n">>,
   <<"s", "t", "o", "p">>,
   <<"p", "a", "u", "s", "e", " ", "s", "c", "a", "n", "n", "i", "n", "g">>,
   <<"t", "a", "k", "e", " ", "m", "e", " ", "h", "o", "m", "e">>,
   <<"w", "h", "e", "r", "e", " ", "i", "s", " ", "m", "y", " ", "l", "o", "c", "a", "t", "i", "o", "n">>,
   <<"c", "h", "a", "n", "g", "e", " ", "l", "a", "n", "g", "u", "a", "g", "e", " ", "t", "o", " ", "h", "i", "n", "d", "i">>,
   <<"S", "p", "e", "a", "k", " ", "i", "n", " ", "T", "a", "m", "i", "l">>,
   <<"b", "e", " ", "m", "o", "r", "e", " ", "c", "a", "l", "m">>,
   <<"c", "h", "a", "n", "g", "e", " ", "t", "o", "n", "e">>,
   <<"h", "e", "l", "l", "o", " ", "t", "h", "e", "r", "e">>,
   <<"o", "k">>,
   <<>>,
   <<" ", "G", "o", " ", "t", "o", " ", " ", "t", "h", "e", " ", "p", "a", "r", "k", " ">>}

Commands == NavigationCommands \cup OtherCommands \cup {NotAString}

CommandRequests ==
  {NoData, [language |-> <<"hi-IN">>]}
  \cup {[command |-> c] : c \in Commands}
  \cup {[command |-> c, language |-> <<"hi-IN">>, tone |-> <<"calm">>] : c \in Commands}

GeminiResultKeys ==
  {{"action", "response"}, {"action", "language", "tone", "response"},
   {"action", "language"}, {"language", "tone"}}

GeminiResults ==
  {[key \in keys |-> full[key]] :
     keys \in GeminiResultKeys,
     full \in {[action |-> a, language |-> p.language, tone |-> p.tone,
                response |-> <<"ok">>] :
                 a \in {"change_language", "change_tone", "navigate", "dance"},
                 p \in {[language |-> <<"ta-IN">>, tone |-> <<>>],
                        [language |-> <<>>, tone |-> <<"formal">>]}}}

ClassifierOutcomes ==
  {[kind |-> "unavailable"], [kind |-> "raises"]}
  \cup {[kind |-> "json", result |-> r] : r \in GeminiResults}

\* a process-command request is answered
ProcessCommand(data, outcome) ==
  /\ exchange = NoExchange
  /\ LET r == process_command(data, session, outcome)
     IN  /\ session' = r.session
         /\ exchange' = [data |-> data, outcome |-> outcome.kind,
                         status |-> r.status, body |-> r.body]
  /\ UNCHANGED <<handler_vars, probe>>

\* the response is returned; the session stays
ReturnCommandResponse ==
  /\ exchange # NoExchange
  /\ exchange' = NoExchange
  /\ UNCHANGED <<handler_vars, probe, session>>

CommandNext ==
  \/ exchange = NoExchange /\ \E data \in CommandRequests, outcome \in ClassifierOutcomes :
                                ProcessCommand(data, outcome)
  \/ ReturnCommandResponse

CommandSpec == Init /\ [][CommandNext]_vars

\* the steps of a request that is being handled
HandlerStep ==
  \/ pc = "geocode" /\ \E outcome \in GeocodeOutcomes : GeocodeAddress(outcome)
  \/ pc = "places" /\ \E outcome \in PlacesOutcomes : FindNearbyPlace(outcome)
  \/ pc = "directions" /\ \E outcome \in DirectionsOutcomes :
                             GetGoogleDirections(outcome)

(***************************************************************************)
(* Properties                                                              *)
(***************************************************************************)
IsString(v) == v # Missing /\ v # NotAString

CoordsOutOfRange(v) ==
  LET c == ParseCoords(v)
  IN  ~InRange(c.lat, -90, 90) \/ ~InRange(c.lng, -180, 180)

\* fails the coordinate pattern, or matches it with lat or lng out of range
InvalidCoordString(v) == ~coord_pattern(v) \/ CoordsOutOfRange(v)

CredentialAbsent == api_key = Missing \/ api_key = <<>>

\* the request passed the checks that precede destination resolution
RequestAccepted ==
  /\ ~CredentialAbsent
  /\ IsString(origin) /\ ~InvalidCoordString(origin)
  /\ IsString(destination)

LastCallIs(api) == Len(calls) >= 1 /\ calls[Len(calls)].api = api

LastAnswer == answers[Len(answers)]

C2_OutOfRangeDestinationRejected ==
  (IsString(destination) /\ coord_pattern(destination)
     /\ CoordsOutOfRange(destination))
    => /\ calls = <<>>
       /\ (pc = "done" /\ RequestAccepted) => response.status = 400

C4_CoordinateDestinationSkipsResolver ==
  (IsString(destination) /\ coord_pattern(destination))
    => /\ Len(calls) <= 1
       /\ \A i \in 1..Len(calls) :
            calls[i].api = "directions" /\ calls[i].destination = destination
       /\ (pc = "done" /\ RequestAccepted) => Len(calls) = 1

C4_Witness ==
  /\ pc = "done"
  /\ IsString(destination) /\ coord_pattern(destination)
  /\ Len(calls) = 1 /\ calls[1].api = "directions"
  /\ response.status = 200

\* C5: the 'could not find "<destination>"' 404 response is given only
\* after the geocode call and then the nearby-place call were both issued
\* and neither yielded coordinates.
C5_NotFoundOnlyAfterAllStages ==
  (pc = "done"
     /\ response = [status |-> 404, success |-> FALSE,
                    message |-> MsgCouldNotFind(destination)])
    => /\ Len(calls) = 2
       /\ calls[1].api = "geocode"
       /\ calls[2].api = "places"
       /\ geocoded_coords.kind # "coords"
       /\ places_result.kind # "coords"

C5_Witness ==
  /\ pc = "done"
  /\ response = [status |-> 404, success |-> FALSE,
                 message |-> MsgCouldNotFind(destination)]
  /\ Len(calls) = 2
  /\ answers[1].status = "ZERO_RESULTS"
  /\ answers[2].status = "ZERO_RESULTS"

\* C6: when destination resolution fails, the response tells the causes
\* apart: a geocode timeout gives 504, a transport failure 503, a
\* REQUEST_DENIED 500, and 404 is given only for zero results.
C6_ResolverFailureDistinguishesCauses ==
  (pc = "done" /\ Len(calls) >= 1 /\ ~LastCallIs("directions"))
    => /\ answers[1].kind = "timeout" => response.status = 504
       /\ answers[1].kind = "transport" => response.status = 503
       /\ answers[1].status = "REQUEST_DENIED" => response.status = 500
       /\ response.status = 404
            => answers[1].kind = "json"
               /\ answers[1].status \in {"ZERO_RESULTS", "OK"}

\* C7: a directions call that times out gives a 504 response, one that
\* fails at transport level a 503 response.
C7_DirectionsTimeoutAndTransport ==
  (pc = "done" /\ LastCallIs("directions"))
    => /\ LastAnswer.kind = "timeout" => response.status = 504
       /\ LastAnswer.kind = "transport" => response.status = 503

\* C8: a non-OK directions status decides the response: ZERO_RESULTS and
\* NOT_FOUND give 404, REQUEST_DENIED gives 500, any other status 503.
C8_DirectionsStatusMapping ==
  (pc = "done" /\ LastCallIs("directions")
     /\ LastAnswer.kind = "json" /\ LastAnswer.status # "OK")
    => response.status =
         IF LastAnswer.status \in {"ZERO_RESULTS", "NOT_FOUND"} THEN 404
         ELSE IF LastAnswer.status = "REQUEST_DENIED" THEN 500
         ELSE 503

\* C9: an OK directions answer with no route, or whose first route has no
\* leg, never reaches parse_google_directions, is never a success, and is
\* answered with 500.
C9_StructurallyEmptyPayloadIsMalformed ==
  (pc = "done" /\ LastCallIs("directions")
     /\ LastAnswer.status = "OK" /\ LastAnswer.shape \in {"no_routes", "no_legs"})
    => /\ parse_calls = 0
       /\ response.success = FALSE
       /\ response.status = 500

\* the number of steps the payload holds over all its legs
RECURSIVE CountSteps(_)
CountSteps(legs) ==
  IF Len(legs) = 0 THEN 0
  ELSE (IF Head(legs).steps.kind = "list" THEN Len(Head(legs).steps.items) ELSE 0)
         + CountSteps(Tail(legs))

\* C10: a returned Route never has an empty step sequence: when the legs
\* hold no step it has exactly one step, numbered 1, "Walk to <destination>",
\* with the route totals and both endpoints {0, 0}; when they hold n >= 1
\* steps it has exactly those n steps and none is synthesized.
C10_RouteNeverWithoutSteps ==
  (pc = "done" /\ response.status = 200)
    => LET n     == CountSteps(directions_data.routes[1].legs)
           route == response.route
       IN  /\ Len(route.steps) >= 1
           /\ n = 0 =>
                route.steps =
                  <<[step_number      |-> 1,
                     instruction      |-> <<"W", "a", "l", "k", " ", "t", "o", " ">> \o destination,
                     distance         |-> route.distance,
                     duration         |-> route.duration,
                     distance_meters  |-> route.distance_meters,
                     duration_seconds |-> route.duration_seconds,
                     start_location   |-> [lat |-> 0, lng |-> 0],
                     end_location     |-> [lat |-> 0, lng |-> 0]]>>
           /\ n >= 1 =>
                /\ Len(route.steps) = n
                /\ \A i \in 1..n : "distance_value" \in DOMAIN route.steps[i]

C10_Witness ==
  /\ pc = "done" /\ response.status = 200
  /\ Len(directions_data.routes[1].legs) = 2
  /\ CountSteps(directions_data.routes[1].legs) = 0
  /\ response.route.distance_meters = 800
  /\ Len(response.route.steps) = 1


\* a success Route, or {success: false, message} with one of the statuses
\* the handler uses
TypedResponse ==
  /\ DOMAIN response \in {{"status", "success", "route"},
                          {"status", "success", "message"}}
  /\ \/ /\ response.status = 200
        /\ response.success = TRUE
        /\ "route" \in DOMAIN response
     \/ /\ response.status \in {400, 404, 500, 503, 504}
        /\ response.success = FALSE
        /\ "message" \in DOMAIN response
        /\ response.message # <<>>

\* the outbound calls a handler at pc may still have to make
CallsLeft(p) ==
  IF p = "geocode" THEN 3 ELSE IF p = "places" THEN 2
  ELSE IF p = "directions" THEN 1 ELSE 0

\* a step of a started handler leaves it with fewer calls to make
HandlerAdvances ==
  pc \in {"geocode", "places", "directions"} => CallsLeft(pc') < CallsLeft(pc)

\* C11: every GetDirections invocation terminates with a typed response,
\* whatever the request and whatever the providers answer: a handler that
\* has started can always take its next step (each outbound call returns
\* or times out after 30 s), every step leaves it with fewer calls to make,
\* and the response it ends with is either a success Route or
\* {success: false, message} with status 400, 404, 500, 503 or 504; an
\* exception of the normalizer does not escape
C11_TerminatesWithTypedResponse ==
  /\ [](pc = "done" => TypedResponse)
  /\ [](pc \in {"geocode", "places", "directions"} => ENABLED HandlerStep)
  /\ [][HandlerAdvances]_vars

\* the normalizer raised on a payload with a null step list and the handler
\* answered 500
C11_Witness ==
  /\ pc = "done"
  /\ parse_calls = 1
  /\ LastAnswer.shape = "legs"
  /\ response = Failure(500, MsgParseFailed)

\* the ServiceError kind the taxonomy gives a provider answer that is not a
\* payload with legs
FailureKind(a) ==
  IF a.kind = "timeout" THEN "UpstreamTimeout"
  ELSE IF a.kind = "transport" THEN "UpstreamUnavailable"
  ELSE IF a.kind = "bad_json" THEN "MalformedResponse"
  ELSE IF a.status \in {"ZERO_RESULTS", "NOT_FOUND"} THEN "NotFound"
  ELSE IF a.status = "REQUEST_DENIED" THEN "ConfigurationMissing"
  ELSE IF a.status = "OK" THEN "MalformedResponse"
  ELSE "UpstreamUnavailable"

\* the status case of the handler a provider answer falls in
StatusCase(a) ==
  IF a.kind # "json" THEN "-"
  ELSE IF a.status \in {"OK", "ZERO_RESULTS", "NOT_FOUND", "REQUEST_DENIED"}
       THEN a.status
       ELSE "other"

\* the request ended with a failure answered after the directions call
\* failed
DirectionsCallFailed ==
  /\ pc = "done"
  /\ LastCallIs("directions")
  /\ LastAnswer.shape # "legs"

\* the request ended with the resolver finding no coordinates
ResolverFailed ==
  /\ pc = "done"
  /\ Len(calls) >= 1
  /\ ~LastCallIs("directions")

\* the message of a second run of the same request whose directions call
\* is answered with outcome
OtherRunMessage(outcome) ==
  directions_response(get_google_directions(outcome), destination).message

\* C12 as stated: the message of a failed response is independent of the
\* provider's response body: a second run with the same request inputs and
\* the same failure kind, but another status string, error_message or body,
\* gives the identical message.
C12_AsStated ==
  /\ ResolverFailed => response.message = MsgCouldNotFind(destination)
  /\ DirectionsCallFailed =>
       \A outcome \in DirectionsOutcomes :
         (/\ Answer(outcome).shape # "legs"
          /\ FailureKind(Answer(outcome)) = FailureKind(LastAnswer))
         => OtherRunMessage(outcome) = response.message

\* C12, amended: the message of a failed response is independent of the
\* provider's error_message and body and depends on the provider's status
\* string only through the case of the handler it falls in (ZERO_RESULTS,
\* NOT_FOUND, REQUEST_DENIED, any other status): a second run with the same
\* request inputs, the same failure kind and the same status case gives the
\* identical message.
C12_MessageIndependentOfErrorText ==
  /\ ResolverFailed => response.message = MsgCouldNotFind(destination)
  /\ DirectionsCallFailed =>
       \A outcome \in DirectionsOutcomes :
         (/\ Answer(outcome).shape # "legs"
          /\ FailureKind(Answer(outcome)) = FailureKind(LastAnswer)
          /\ StatusCase(Answer(outcome)) = StatusCase(LastAnswer))
         => OtherRunMessage(outcome) = response.message

\* the directions call was answered with a status outside the three the
\* handler names
C12_Witness ==
  /\ DirectionsCallFailed
  /\ LastAnswer.status = "INVALID_REQUEST"
  /\ response = Failure(404, MsgRouteNotAvailable)

PayloadLegs == directions_data.routes[1].legs

\* C14: the Route's start_address is the provider's start address when it
\* supplies one and "Current Location" otherwise, and its end_address is
\* the provider's end address when it supplies one and the destination of
\* the request otherwise; with several legs the start address is the first
\* leg's and the end address the last leg's.
C14_AddressesWithDefaults ==
  (pc = "done" /\ response.status = 200)
  => LET first == PayloadLegs[1]
         last  == PayloadLegs[Len(PayloadLegs)]
     IN  /\ response.route.start_address =
              (IF first.start_address # Missing THEN first.start_address
               ELSE <<"C", "u", "r", "r", "e", "n", "t", " ",
                      "L", "o", "c", "a", "t", "i", "o", "n">>)
         /\ response.route.end_address =
              (IF last.end_address # Missing THEN last.end_address
               ELSE destination)

\* two legs: the first has no start address but an end address, the last
\* has a start address but no end address
C14_Witness ==
  /\ pc = "done"
  /\ response.status = 200
  /\ Len(PayloadLegs) = 2
  /\ PayloadLegs[1].start_address = Missing
  /\ PayloadLegs[1].end_address = ParkRd
  /\ PayloadLegs[2].start_address = ParkRd
  /\ PayloadLegs[2].end_address = Missing
  /\ response.route.end_address = destination

\* C15: the instruction of every canonical step is non-empty: when the raw
\* instruction is missing, empty, or empty once its tags are removed and it
\* is trimmed, the cleaned instruction is exactly "Continue straight".
C15_InstructionNeverEmpty ==
  probe.op = "instruction"
  => /\ probe.output # <<>>
     /\ (\/ probe.input = Missing
         \/ probe.input = <<>>
         \/ strip(strip_tags(probe.input)) = <<>>)
        => probe.output = <<"C", "o", "n", "t", "i", "n", "u", "e", " ",
                            "s", "t", "r", "a", "i", "g", "h", "t">>

\* a raw instruction that is a tag followed by a blank
C15_Witness ==
  /\ probe.op = "instruction"
  /\ probe.input = <<"<", "a", ">", " ">>
  /\ probe.output = ContinueStraight

\* t is the decimal numeral of n: digits only, no leading zero, value n
IsNumeralOf(t, n) ==
  /\ Len(t) >= 1
  /\ AllDigits(t, 1, Len(t))
  /\ Len(t) = 1 \/ t[1] # "0"
  /\ DigitsValue(t, 1, Len(t)) = n

\* t ends with suffix
EndsWith(t, suffix) ==
  /\ Len(t) >= Len(suffix)
  /\ SubSeq(t, Len(t) - Len(suffix) + 1, Len(t)) = suffix

\* t without its last n characters
DropLast(t, n) == SubSeq(t, 1, Len(t) - n)

\* C16: for every non-negative integer number of seconds s the duration
\* display is "<s> sec" when s < 60 and "<floor(s/60)> min" when s >= 60:
\* 45 gives "45 sec", 60 gives "1 min", 125 gives "2 min", 119 gives
\* "1 min".
C16_DurationDisplay ==
  probe.op = "duration"
  => LET s == probe.input
         t == probe.output
     IN  /\ s < 60 => /\ EndsWith(t, <<" ", "s", "e", "c">>)
                      /\ IsNumeralOf(DropLast(t, 4), s)
         /\ s >= 60 => /\ EndsWith(t, <<" ", "m", "i", "n">>)
                       /\ \E q \in 1..s : /\ 60 * q <= s /\ s < 60 * (q + 1)
                                           /\ IsNumeralOf(DropLast(t, 4), q)
         /\ s = 45 => t = <<"4", "5", " ", "s", "e", "c">>
         /\ s = 60 => t = <<"1", " ", "m", "i", "n">>
         /\ s = 125 => t = <<"2", " ", "m", "i", "n">>
         /\ s = 119 => t = <<"1", " ", "m", "i", "n">>

\* one second short of two minutes is displayed as one minute
C16_Witness ==
  /\ probe.op = "duration"
  /\ probe.input = 119
  /\ probe.output = <<"1", " ", "m", "i", "n">>

\* C17: for every non-negative integer number of metres m the distance
\* display is "<m> m" when m < 1000 and the distance in kilometres with
\* exactly one decimal place, the nearest tenth, followed by " km" when
\* m >= 1000: 1000 gives "1.0 km" and 999 gives "999 m".
C17_DistanceDisplay ==
  probe.op = "distance"
  => LET m == probe.input
         t == probe.output
     IN  /\ m < 1000 => /\ EndsWith(t, <<" ", "m">>)
                        /\ ~EndsWith(t, <<" ", "k", "m">>)
                        /\ IsNumeralOf(DropLast(t, 2), m)
         /\ m >= 1000 =>
              /\ EndsWith(t, <<" ", "k", "m">>)
              /\ Len(t) >= 6
              /\ t[Len(t) - 4] = "."
              /\ IsDigit(t[Len(t) - 3])
              /\ \E km \in 1..(m \div 1000 + 1) :
                   /\ IsNumeralOf(DropLast(t, 5), km)
                   /\ LET tenths == 10 * km + DigitValue(t[Len(t) - 3])
                      IN  100 * tenths - 50 <= m /\ m <= 100 * tenths + 50
         /\ m = 1000 => t = <<"1", ".", "0", " ", "k", "m">>
         /\ m = 999 => t = <<"9", "9", "9", " ", "m">>

\* the first distance displayed in kilometres
C17_Witness ==
  /\ probe.op = "distance"
  /\ probe.input = 1000
  /\ probe.output = <<"1", ".", "0", " ", "k", "m">>

Library == <<"l", "i", "b", "r", "a", "r", "y">>

NearMe == <<" ", "n", "e", "a", "r", " ", "m", "e">>

\* the call this step issues, when it issues one
IssuesCall(api) ==
  /\ Len(calls') = Len(calls) + 1
  /\ calls'[Len(calls')].api = api

GenericNounDestination ==
  destination \in {Library, <<" ", "P", "a", "r", "k", "s">>}

\* the stages of the resolver for a generic category noun, in order: one
\* geocode call with the rewritten text, then at most one nearby search
ResolverStagesInOrder ==
  GenericNounDestination
  => /\ Len(calls) >= 1
        => /\ calls[1].api = "geocode"
           /\ destination = Library => calls[1].address = Library \o NearMe
           /\ destination = <<" ", "P", "a", "r", "k", "s">>
              => calls[1].address = <<"p", "a", "r", "k">> \o NearMe
     /\ \A i \in 2..Len(calls) :
          /\ calls[i].api # "geocode"
          /\ calls[i].api = "places" => i = 2

\* a later stage is issued only after the earlier one yielded no
\* coordinates, and the directions call only once there are coordinates
LaterStageOnlyAfterFailure ==
  GenericNounDestination
  => /\ IssuesCall("places")
        => geocoded_coords = None \/ geocoded_coords.kind = "error"
     /\ IssuesCall("directions")
        => geocoded_coords # None /\ geocoded_coords.kind = "coords"

CallsTo(api) == Cardinality({i \in 1..Len(calls) : calls[i].api = api})

\* C19: each request is a single forward pipeline: no outbound call is
\* issued before the origin is validated; the directions call is issued at
\* most once, after every resolver call and with the destination resolved
\* to coordinates; the payload is normalized at most once and only after a
\* payload with a route and a leg was returned; and no outbound call is
\* issued again after it failed or timed out.
C19_SingleForwardPipeline ==
  /\ Len(calls) >= 1 => RequestAccepted
  /\ CallsTo("geocode") <= 1 /\ CallsTo("places") <= 1
  /\ CallsTo("directions") <= 1
  /\ \A i \in 1..Len(calls) :
       calls[i].api = "directions"
       => /\ i = Len(calls)
          /\ coord_pattern(calls[i].destination)
          /\ \/ i = 1 /\ calls[i].destination = destination
             \/ i > 1 /\ geocoded_coords # None /\ geocoded_coords.kind = "coords"
  /\ parse_calls <= 1
  /\ parse_calls = 1
     => /\ LastCallIs("directions")
        /\ LastAnswer = [kind |-> "json", status |-> "OK", shape |-> "legs"]
  /\ Len(answers) = Len(calls)

\* geocode failed, the nearby search succeeded, the directions call timed
\* out: three calls, none repeated, nothing normalized
C19_Witness ==
  /\ pc = "done"
  /\ Len(calls) = 3
  /\ calls[1].api = "geocode" /\ answers[1].kind = "timeout"
  /\ calls[2].api = "places"
  /\ calls[3].api = "directions" /\ answers[3].kind = "timeout"
  /\ parse_calls = 0
  /\ response.status = 404

\* the sum over legs of the figure each leg reports, 0 for a leg that
\* reports none
RECURSIVE SumOverLegs(_, _)
SumOverLegs(legs, field) ==
  IF Len(legs) = 0 THEN 0
  ELSE (IF Head(legs)[field] = -1 THEN 0 ELSE Head(legs)[field])
         + SumOverLegs(Tail(legs), field)

\* C20: for every payload with at least one leg the Route's total distance
\* in metres and total duration in seconds are the sums over all legs of
\* each leg's reported distance and duration value, a missing figure
\* counting 0; no figure of a step contributes.
C20_TotalsAreSumsOverLegs ==
  (pc = "done" /\ response.status = 200)
  => /\ response.route.distance_meters = SumOverLegs(PayloadLegs, "distance")
     /\ response.route.duration_seconds = SumOverLegs(PayloadLegs, "duration")

\* two legs: the first reports 1500 m and 125 s with one step of 250 m and
\* 45 s, the second reports no distance and 60 s with a step of 1500 m
C20_Witness ==
  /\ pc = "done"
  /\ response.status = 200
  /\ Len(PayloadLegs) = 2
  /\ PayloadLegs[1].distance = 1500 /\ PayloadLegs[1].duration = 125
  /\ PayloadLegs[1].steps = [kind |-> "list", items |-> <<StepGoToward>>]
  /\ PayloadLegs[2].distance = Absent /\ PayloadLegs[2].duration = 60
  /\ response.route.distance_meters = 1500
  /\ response.route.duration_seconds = 185

\* the provider's steps of all legs, leg after leg, each leg's in its order
RECURSIVE ProviderSteps(_)
ProviderSteps(legs) ==
  IF Len(legs) = 0 THEN <<>>
  ELSE (IF Head(legs).steps.kind = "list" THEN Head(legs).steps.items ELSE <<>>)
         \o ProviderSteps(Tail(legs))

\* C21: in every Route the step ordinals are exactly 1, 2, ..., n in
\* sequence order, with no gap, repeat or reset at a leg boundary, and the
\* steps appear in provider order: all steps of a leg before any step of the
\* next leg, and within a leg in the provider's order.
C21_OrdinalsRunAcrossLegs ==
  (pc = "done" /\ response.status = 200)
  => LET steps == response.route.steps
         given == ProviderSteps(PayloadLegs)
     IN  /\ \A i \in 1..Len(steps) : steps[i].step_number = i
         /\ Len(given) > 0
            => /\ Len(steps) = Len(given)
               /\ \A i \in 1..Len(given) :
                    /\ steps[i].distance_meters =
                         (IF given[i].distance = -1 THEN 0 ELSE given[i].distance)
                    /\ steps[i].duration_seconds =
                         (IF given[i].duration = -1 THEN 0 ELSE given[i].duration)

\* two legs with steps: one step of 250 m, then steps of 0 m and 1500 m
C21_Witness ==
  /\ pc = "done"
  /\ response.status = 200
  /\ Len(PayloadLegs) = 2
  /\ PayloadLegs[1].steps = [kind |-> "list", items |-> <<StepGoToward>>]
  /\ PayloadLegs[2].steps = [kind |-> "list", items |-> <<StepBare, StepMarkupOnly>>]
  /\ Len(response.route.steps) = 3
  /\ response.route.steps[3].step_number = 3
  /\ response.route.steps[3].distance_meters = 1500

\* C22: the cleaned instruction of every step contains no run of two or
\* more consecutive whitespace characters and no leading or trailing
\* whitespace, also when the run arises from removing markup between two
\* spaces or from decoding &nbsp; next to a space.
C22_NoWhitespaceRuns ==
  probe.op = "instruction"
  => LET t == probe.output
     IN  /\ \A i \in 1..(Len(t) - 1) : ~(IsSpace(t[i]) /\ IsSpace(t[i + 1]))
         /\ Len(t) > 0 => ~IsSpace(t[1]) /\ ~IsSpace(t[Len(t)])

\* C23: the voice-friendliness substitution is idempotent: for every
\* instruction built from the phrases of the substitution table,
\* clean_instruction_text applied to its own output returns the same
\* string; an instruction that already holds "towards" or "Your
\* destination will be on the right" is left unchanged.
C23_VoiceCleanIdempotent ==
  probe.op = "voice"
  => /\ probe.again = probe.output
     /\ probe.input \in {<<"t", "o", "w", "a", "r", "d", "s">>,
                         <<"Y", "o", "u", "r", " ", "d", "e", "s", "t", "i", "n", "a", "t", "i", "o", "n", " ", "w", "i", "l", "l", " ", "b", "e", " ", "o", "n", " ", "t", "h", "e", " ", "r", "i", "g", "h", "t">>}
        => probe.output = probe.input

\* a process-command request is answered in this step
CommandAnswered == exchange = NoExchange /\ exchange' # NoExchange

SessionFollowsResult ==
  /\ CommandAnswered
     => LET status == exchange'.status
            result == exchange'.body
        IN  /\ status # 200 => session' = session
            /\ status = 200
               => /\ IF result.action = "change_language" /\ Truthy(result, "language")
                     THEN session'.current_language = result.language
                     ELSE session'.current_language = session.current_language
                  /\ IF result.action = "change_tone" /\ Truthy(result, "tone")
                     THEN session'.current_tone = result.tone
                     ELSE session'.current_tone = session.current_tone
                  /\ result.current_language
                       = SessionGet(session', "current_language", <<"en-IN">>)
                  /\ result.current_tone
                       = SessionGet(session', "current_tone", <<"friendly">>)
  /\ ~CommandAnswered => session' = session

\* C24: over the process-command requests of one session the stored language
\* changes only when the result's action is change_language with a non-empty
\* language, and then becomes that language; the stored tone changes only
\* when the action is change_tone with a non-empty tone, and then becomes
\* that tone; every other result, and every request answered with an error,
\* leaves both as they were; the current_language and current_tone that are
\* returned are the session's values after the update, en-IN and friendly
\* while the session has none.
C24_SessionFollowsResult == [][SessionFollowsResult]_vars

\* a change of language answered after an earlier request changed the tone
C24_Witness ==
  /\ exchange # NoExchange
  /\ exchange.status = 200
  /\ exchange.body.action = "change_language"
  /\ Truthy(exchange.body, "language")
  /\ exchange.body.language = <<"ta-IN">>
  /\ session.current_language = <<"ta-IN">>
  /\ exchange.body.current_language = <<"ta-IN">>
  /\ session.current_tone = <<"formal">>
  /\ exchange.body.current_tone = <<"formal">>

\* C25: the keyword fallback classifies every command "take me to X", "go to
\* X" or "navigate to X" with a non-empty X as navigate with destination X,
\* whatever the words of X are.
C25_NavigationPhrasesNavigate ==
  (/\ exchange # NoExchange
   /\ exchange.status = 200
   /\ exchange.outcome # "json"
   /\ exchange.data.command \in NavigationCommands)
  => \E pat \in DestinationPatterns :
       \E x \in UNION {DestinationsOfWords(n) : n \in 1..MaxDestinationWords} :
         /\ exchange.data.command = pat \o <<" ">> \o x
         /\ exchange.body.action = "navigate"
         /\ exchange.body.destination = x

=============================================================================
